---- MODULE Spec2Model ----
(***************************************************************************)
(* strategy_analyzer: the frequency inference of TimeHelper and the        *)
(* metrics of PortfolioMetrics, as pure functions applied to bounded       *)
(* inputs.                                                                 *)
(*                                                                         *)
(* Timestamps are integers counted in ticks, TicksPerDay ticks to the day. *)
(* A pd.Timedelta is <<seconds>>, Python's None is <<>>.  Numbers of the   *)
(* metrics are exact rationals <<numerator, denominator>> in lowest terms  *)
(* with a positive denominator; <<0, 0>> is NaN and <<1, 0>>, <<-1, 0>>    *)
(* are the infinities, the values pandas gives a division by zero.         *)
(* A call's outcome is Ok(value) or Raise(error).                          *)
(***************************************************************************)
EXTENDS Integers, Sequences, FiniteSets, TLC

\* ---------------------------------------------------------------- bounds
TicksPerDay == 2
MaxDatetimes == 6
MaxRows == 4
MaxDeltaDays == 60

VARIABLES op, datetimes, returns_series, minimum_mode_percentage, time_delta,
          calendar_convention, start_point, sharpe_time_frequency, result,
          self, target_return, interest_rate

vars == <<op, datetimes, returns_series, minimum_mode_percentage, time_delta,
          calendar_convention, start_point, sharpe_time_frequency, result,
          self, target_return, interest_rate>>

\* ------------------------------------------------------- call outcomes
Ok(v) == [err |-> "", val |-> v]
Raise(e) == [err |-> e, val |-> <<>>]
None == <<>>

\* ------------------------------------------------------------ pandas time
SecondsPerDay == 86400
SecondsPerWeek == 604800
SecondsPerMinute == 60
SecondsPerYear == 31556952

\* pd.Timedelta('<n><unit>'): in a Timedelta string 'M' is the minute and
\* 'Y' the mean Gregorian year of 365.2425 days.  (pandas releases that
\* reject 'M' and 'Y' raise a ValueError where this model reaches them.)
Timedelta(n, unit) ==
    <<n * (CASE unit = "D" -> SecondsPerDay
             [] unit = "W" -> SecondsPerWeek
             [] unit = "M" -> SecondsPerMinute
             [] unit = "Y" -> SecondsPerYear)>>

TRADING_DAYS == Timedelta(252, "D")
CALENDAR_DAYS == Timedelta(365, "D")
CalendarConvention == {TRADING_DAYS, CALENDAR_DAYS}

\* ------------------------------------------------------------- rationals
Abs(n) == IF n < 0 THEN -n ELSE n
Sign(n) == IF n < 0 THEN -1 ELSE IF n > 0 THEN 1 ELSE 0

RECURSIVE GCD(_, _)
GCD(a, b) == IF b = 0 THEN a ELSE GCD(b, a % b)

NaN == <<0, 0>>
IsNaN(x) == x = NaN
IsFinite(x) == x[2] # 0

\* n / d as a float division gives it: 0/0 is NaN, x/0 an infinity
Rat(n, d) ==
    IF d = 0 THEN <<Sign(n), 0>>
    ELSE LET g == GCD(Abs(n), Abs(d))
         IN  <<Sign(d) * (n \div g), Abs(d) \div g>>

Num(i) == <<i, 1>>

RAdd(x, y) ==
    IF IsNaN(x) \/ IsNaN(y) THEN NaN
    ELSE IF ~IsFinite(x) /\ ~IsFinite(y) THEN (IF x = y THEN x ELSE NaN)
    ELSE IF ~IsFinite(x) THEN x
    ELSE IF ~IsFinite(y) THEN y
    ELSE Rat(x[1] * y[2] + y[1] * x[2], x[2] * y[2])

RNeg(x) == <<-x[1], x[2]>>
RSub(x, y) == RAdd(x, RNeg(y))

RMul(x, y) ==
    IF IsNaN(x) \/ IsNaN(y) THEN NaN
    ELSE IF IsFinite(x) /\ IsFinite(y) THEN Rat(x[1] * y[1], x[2] * y[2])
    ELSE Rat(Sign(x[1]) * Sign(y[1]), 0)

RDiv(x, y) ==
    IF IsNaN(x) \/ IsNaN(y) THEN NaN
    ELSE IF ~IsFinite(x) /\ ~IsFinite(y) THEN NaN
    ELSE IF ~IsFinite(x) THEN Rat(Sign(x[1]) * (IF y[1] < 0 THEN -1 ELSE 1), 0)
    ELSE IF ~IsFinite(y) THEN Num(0)
    ELSE Rat(x[1] * y[2] * Sign(y[1]), x[2] * Abs(y[1]))

\* comparisons with NaN are false, as in IEEE arithmetic
RLt(x, y) ==
    /\ ~IsNaN(x) /\ ~IsNaN(y)
    /\ IF IsFinite(x) /\ IsFinite(y) THEN x[1] * y[2] < y[1] * x[2]
       ELSE IF ~IsFinite(x) /\ ~IsFinite(y) THEN x[1] < y[1]
       ELSE IF ~IsFinite(x) THEN x[1] < 0
       ELSE y[1] > 0

RLe(x, y) == ~IsNaN(x) /\ ~IsNaN(y) /\ (x = y \/ RLt(x, y))

\* int(x): truncation toward zero of a finite number
Truncate(x) == Sign(x[1]) * (Abs(x[1]) \div x[2])

\* ------------------------------------------------------------ TimeHelper
\* minimum_mode_percentage: float = 0.6
DEFAULT_MINIMUM_MODE_PERCENTAGE == Rat(3, 5)

\* np.diff(datetimes).astype('timedelta64[D]'): consecutive differences,
\* in the order given, cast to whole days (the cast rounds toward minus
\* infinity).  Despite the name the unit is the day.
get_time_diffs_seconds(dts) ==
    [i \in 1..(Len(dts) - 1) |-> (dts[i + 1] - dts[i]) \div TicksPerDay]

\* pd.Series(time_diffs).value_counts(): gap value -> occurrence count
value_counts(time_diffs) ==
    [v \in {time_diffs[i] : i \in DOMAIN time_diffs} |->
        Cardinality({i \in DOMAIN time_diffs : time_diffs[i] = v})]

\* time_diff_counts / len(time_diffs)
time_diff_distribution(time_diffs) ==
    LET counts == value_counts(time_diffs)
    IN  [v \in DOMAIN counts |-> Rat(counts[v], Len(time_diffs))]

\* time_diff_distribution.max()
mode_percentage(time_diffs) ==
    LET dist == time_diff_distribution(time_diffs)
    IN  CHOOSE p \in {dist[v] : v \in DOMAIN dist} :
            \A v \in DOMAIN dist : RLe(dist[v], p)

\* faulty variant: the first index of an ascending sort: a value of the lowest count
time_diff_mode_ascending(time_diffs) ==
    LET counts == value_counts(time_diffs)
    IN  {v \in DOMAIN counts : \A w \in DOMAIN counts : counts[v] <= counts[w]}

\* time_diff_distribution.index[0]: value_counts sorts by descending count,
\* so the first index is a value of the highest count; the order among
\* values of equal count is not specified, so every one of them is possible.
time_diff_mode(time_diffs) ==
    LET counts == value_counts(time_diffs)
    IN  {v \in DOMAIN counts : \A w \in DOMAIN counts : counts[w] <= counts[v]}

\* faulty variant: mode_percentage <= minimum_mode_percentage
BelowOrAtMinimum(mode_pct, mmp) == RLe(mode_pct, mmp)

\* mode_percentage < minimum_mode_percentage
BelowMinimum(mode_pct, mmp) == RLt(mode_pct, mmp)

\* The set of outcomes of _get_most_common_time_diff.  index[0] of an empty
\* distribution raises IndexError before the threshold is compared; the
\* ValueError of the threshold is the spec's AmbiguousFrequency.
get_most_common_time_diff(time_diffs, mmp) ==
    IF Len(time_diffs) = 0 THEN {Raise("IndexError")}
    ELSE IF BelowMinimum(mode_percentage(time_diffs), mmp)
         THEN {Raise("AmbiguousFrequency")}
    ELSE {Ok(Timedelta(v, "D")) : v \in time_diff_mode(time_diffs)}

infer_frequency(dts, mmp) ==
    get_most_common_time_diff(get_time_diffs_seconds(dts), mmp)

\* faulty variant: a best-effort estimate for every positive whole number of days
get_num_periods_per_year_estimate(td, convention) ==
    IF td # None /\ td[1] > 0 /\ td[1] % SecondsPerDay = 0
    THEN Ok(Rat(convention[1], td[1]))
    ELSE Raise("UnsupportedFrequency")

\* The ValueError of the else branch is the spec's UnsupportedFrequency.
\* A Timedelta divided by a Timedelta is a float.
get_num_periods_per_year(td, convention) ==
    IF td = Timedelta(1, "D") THEN Ok(Rat(convention[1], td[1]))
    ELSE IF td = Timedelta(1, "W") THEN Ok(Num(52))
    ELSE IF td = Timedelta(1, "M") THEN Ok(Num(12))
    ELSE IF td = Timedelta(1, "Y") THEN Ok(Num(1))
    ELSE Raise("UnsupportedFrequency")

\* ---------------------------------------------------------- pandas Series
\* A Series is its values, a sequence of numbers; its index is the sequence
\* of timestamps of the same length.
Series_add(s, c) == [i \in DOMAIN s |-> RAdd(s[i], c)]
Series_sub(s, c) == [i \in DOMAIN s |-> RSub(s[i], c)]

RECURSIVE Product(_, _)
Product(s, i) == IF i = 0 THEN Num(1) ELSE RMul(Product(s, i - 1), s[i])

Series_cumprod(s) == [i \in DOMAIN s |-> Product(s, i)]

\* the greatest of s[1..i]
Series_cummax(s) ==
    [i \in DOMAIN s |->
        LET values == {s[j] : j \in 1..i}
        IN  CHOOSE m \in values : \A v \in values : RLe(v, m)]

NotNaN(s) == {i \in DOMAIN s : ~IsNaN(s[i])}

\* Series.min(): the least value that is not NaN, NaN when there is none
Series_min(s) ==
    LET values == {s[i] : i \in NotNaN(s)}
    IN  IF values = {} THEN NaN
        ELSE CHOOSE m \in values : \A v \in values : RLe(m, v)

\* faulty variant: the label of the last position holding the minimum
Series_idxmin_last(s, index) ==
    LET m == Series_min(s)
        at == {i \in NotNaN(s) : s[i] = m}
    IN  IF Len(s) = 0 THEN Raise("ValueError")
        ELSE IF at = {} THEN Ok(NaN)
        ELSE Ok(<<index[CHOOSE i \in at : \A j \in at : j <= i]>>)

\* Series.idxmin(): the index label (a timestamp, <<ticks>>) of the first
\* position holding the minimum, NaN skipped; NaN when every value is NaN;
\* an empty Series raises ValueError
Series_idxmin(s, index) ==
    LET m == Series_min(s)
        at == {i \in NotNaN(s) : s[i] = m}
    IN  IF Len(s) = 0 THEN Raise("ValueError")
        ELSE IF at = {} THEN Ok(NaN)
        ELSE Ok(<<index[CHOOSE i \in at : \A j \in at : i <= j]>>)

\* Series.pct_change(n): s[i] / s[i - n] - 1, NaN for the first n positions
Series_pct_change(s, n) ==
    [i \in DOMAIN s |->
        IF i - n >= 1 THEN RSub(RDiv(s[i], s[i - n]), Num(1)) ELSE NaN]

\* Series.dropna()
RECURSIVE Series_dropna(_)
Series_dropna(s) ==
    IF Len(s) = 0 THEN <<>>
    ELSE IF IsNaN(s[1]) THEN Series_dropna(Tail(s))
    ELSE <<s[1]>> \o Series_dropna(Tail(s))

\* ------------------------------------------------------- PortfolioMetrics
\* faulty variant: the start point scales the curve instead of shifting it
get_cumulative_returns_scaled(rs, sp) ==
    LET zero_start_point == Series_sub(Series_cumprod(Series_add(rs, Num(1))), Num(1))
    IN  [i \in DOMAIN rs |-> RMul(zero_start_point[i], sp)]

get_cumulative_returns(rs, sp) ==
    LET zero_start_point == Series_sub(Series_cumprod(Series_add(rs, Num(1))), Num(1))
    IN  Series_add(zero_start_point, sp)

\* StrategyAnalyzer.cumprod on the clean returns: the same curve
cumprod(clean_returns, sp) ==
    LET zero_start_point ==
            Series_sub(Series_cumprod(Series_add(clean_returns, Num(1))), Num(1))
    IN  Series_add(zero_start_point, sp)

\* faulty variant: the drawdown measured from the first value, not the running peak
get_underwater_from_start(rs) ==
    LET cumulative == get_cumulative_returns(rs, Num(1))
    IN  [i \in DOMAIN rs |-> RSub(RDiv(cumulative[i], cumulative[1]), Num(1))]

get_underwater(rs) ==
    LET cumulative == get_cumulative_returns(rs, Num(1))
        peak == Series_cummax(cumulative)
    IN  [i \in DOMAIN rs |-> RSub(RDiv(cumulative[i], peak[i]), Num(1))]

get_max_drawdown(rs) == Series_min(get_underwater(rs))

get_max_drawdown_date(rs, index) == Series_idxmin(get_underwater(rs), index)

\* `if sharpe_time_frequency:`: None and a Timedelta of zero are false
Truthy(td) == td # None /\ td[1] # 0

\* get_annualized_volatility once the frequency is inferred (outcome f of
\* infer_frequency).  The value returned is
\* period_returns.std() * sqrt(sharpe_periods_per_year), a function of the
\* windowed returns and the factor; the model keeps these two and the window.
annualized_volatility_given(f, rs, stf, convention) ==
    IF f.err # "" THEN f
    ELSE LET series_periods_per_year == get_num_periods_per_year(f.val, convention)
             sharpe_periods_per_year ==
                 IF Truthy(stf) THEN get_num_periods_per_year(stf, convention)
                 ELSE get_num_periods_per_year(f.val, convention)
         IN  IF series_periods_per_year.err # "" THEN series_periods_per_year
             ELSE IF sharpe_periods_per_year.err # "" THEN sharpe_periods_per_year
             ELSE LET rolling_window ==
                          Truncate(RDiv(sharpe_periods_per_year.val,
                                        series_periods_per_year.val))
                      cumulative_returns ==
                          Series_add(get_cumulative_returns(rs, Num(1)), Num(1))
                      period_returns ==
                          Series_dropna(Series_pct_change(cumulative_returns,
                                                          rolling_window))
                  IN  Ok([rolling_window |-> rolling_window,
                          period_returns |-> period_returns,
                          sharpe_periods_per_year |-> sharpe_periods_per_year.val])

\* the set of outcomes of get_annualized_volatility
get_annualized_volatility(rs, index, stf, convention) ==
    {annualized_volatility_given(f, rs, stf, convention) :
        f \in infer_frequency(index, DEFAULT_MINIMUM_MODE_PERCENTAGE)}

\* ------------------------------------------------------------ logarithms
\* np.log of a number that is positive, finite and not 1 is irrational.  A
\* float c * ln(x), with such an x and c finite and not 0, is the triple
\* <<"ln", x, c>>; every other float of the metrics is a rational, an
\* infinity or NaN as above.
IsLn(v) == Len(v) = 3

\* np.log(x): NaN below 0 (a RuntimeWarning, not an exception), minus
\* infinity at 0, 0 at 1
np_log(x) ==
    IF IsNaN(x) THEN NaN
    ELSE IF ~IsFinite(x) THEN (IF x[1] > 0 THEN x ELSE NaN)
    ELSE IF x[1] < 0 THEN NaN
    ELSE IF x[1] = 0 THEN Rat(-1, 0)
    ELSE IF x = Num(1) THEN Num(0)
    ELSE <<"ln", x, Num(1)>>

\* the sign of c * ln(x)
LnSign(v) == Sign(v[3][1]) * (IF RLt(Num(1), v[2]) THEN 1 ELSE -1)

\* v / y for floats v and y, y a rational: numpy floats divide by zero to an
\* infinity or NaN (a RuntimeWarning, not an exception)
FloatDiv(v, y) ==
    IF ~IsLn(v) THEN RDiv(v, y)
    ELSE IF IsNaN(y) THEN NaN
    ELSE IF ~IsFinite(y) THEN Num(0)
    ELSE IF y[1] = 0 THEN Rat(LnSign(v), 0)
    ELSE <<"ln", v[2], RDiv(v[3], y)>>

\* abs(x)
RAbs(x) == <<Abs(x[1]), x[2]>>

\* ---------------------------------------------- PortfolioMetrics: ratios
\* the 365.25 of get_returns_length_in_years
DAYS_PER_YEAR == Rat(1461, 4)

\* (end_date - start_date).days / 365.25; .days is the whole days of the
\* difference, index[0] of an empty index raises IndexError
get_returns_length_in_years(index) ==
    IF Len(index) = 0 THEN Raise("IndexError")
    ELSE Ok(RDiv(Num((index[Len(index)] - index[1]) \div TicksPerDay), DAYS_PER_YEAR))

get_annualized_return(rs, index) ==
    LET cumulative_returns == get_cumulative_returns(rs, Num(1))
        years == get_returns_length_in_years(index)
    IN  IF years.err # "" THEN years
        ELSE Ok(FloatDiv(np_log(cumulative_returns[Len(rs)]), years.val))

\* faulty variant: the division of Python floats, which raises on a zero divisor
get_calmar_ratio_python_division(rs, index) ==
    LET annualized_return == get_annualized_return(rs, index)
        maxdd == RAbs(get_max_drawdown(rs))
    IN  IF annualized_return.err # "" THEN annualized_return
        ELSE IF maxdd = Num(0) THEN Raise("ZeroDivisionError")
        ELSE Ok(FloatDiv(annualized_return.val, maxdd))

get_calmar_ratio(rs, index) ==
    LET annualized_return == get_annualized_return(rs, index)
        maxdd == RAbs(get_max_drawdown(rs))
    IN  IF annualized_return.err # "" THEN annualized_return
        ELSE Ok(FloatDiv(annualized_return.val, maxdd))

RECURSIVE Sum(_, _)
Sum(s, i) == IF i = 0 THEN Num(0) ELSE RAdd(Sum(s, i - 1), s[i])

\* Series.mean(): NaN for an empty Series
Series_mean(s) == RDiv(Sum(s, Len(s)), Num(Len(s)))

\* the square of Series.std(): the sample variance (ddof = 1), NaN for
\* fewer than two values
Series_var(s) ==
    IF Len(s) = 0 THEN NaN
    ELSE LET m == Series_mean(s)
             squares == [i \in DOMAIN s |-> RMul(RSub(s[i], m), RSub(s[i], m))]
         IN  RDiv(Sum(squares, Len(s)), Num(Len(s) - 1))

\* returns_series[returns_series > 0]
RECURSIVE Series_positive(_)
Series_positive(s) ==
    IF Len(s) = 0 THEN <<>>
    ELSE IF RLt(Num(0), s[1]) THEN <<s[1]>> \o Series_positive(Tail(s))
    ELSE Series_positive(Tail(s))

\* The value returned is (return_means / return_stds) * sqrt(periods_per_year);
\* the model keeps the mean, the square of the deviation and periods_per_year.
\* get_num_periods_per_year is called with the duration alone, so with its
\* default convention, after the mean and the deviation are taken.
get_sharpe_ratio(rs, time_frequency) ==
    LET return_means == Series_mean(rs)
        return_stds_squared == Series_var(rs)
        periods_per_year == get_num_periods_per_year(time_frequency, TRADING_DAYS)
    IN  IF periods_per_year.err # "" THEN periods_per_year
        ELSE Ok([return_means |-> return_means,
                 return_stds_squared |-> return_stds_squared,
                 periods_per_year |-> periods_per_year.val])

\* the same with the deviation of the returns above 0
get_sortino_ratio(rs, time_frequency) ==
    LET positive_returns == Series_positive(rs)
        return_means == Series_mean(rs)
        return_stds_squared == Series_var(positive_returns)
        periods_per_year == get_num_periods_per_year(time_frequency, TRADING_DAYS)
    IN  IF periods_per_year.err # "" THEN periods_per_year
        ELSE Ok([return_means |-> return_means,
                 return_stds_squared |-> return_stds_squared,
                 periods_per_year |-> periods_per_year.val])

\* -------------------------------------------------------- StrategyAnalyzer
\* Period.CALENDAR_DAYS_PER_YEAR = 365.
CALENDAR_DAYS_PER_YEAR == 365

\* Two more forms of float: c * ln(x) + b is <<"ln", x, c, b>>, and
\* t / (c * ln(x) + b) is <<"/", t, x, c, b>>, x positive, finite and not 1,
\* c and t finite and not 0, b finite.
IsLnPlus(v) == Len(v) = 4
IsOverLnPlus(v) == Len(v) = 5

\* v - y for a float v and a rational y
FloatSub(v, y) ==
    IF ~IsLn(v) THEN RSub(v, y)
    ELSE IF IsNaN(y) THEN NaN
    ELSE IF ~IsFinite(y) THEN RNeg(y)
    ELSE <<"ln", v[2], v[3], RNeg(y)>>

\* 1 - 1/x <= ln(x) <= x - 1 for every positive x: bounds of c * ln(x) + b
LnPlusLower(d) ==
    RAdd(RMul(d[3], IF d[3][1] > 0 THEN RSub(Num(1), RDiv(Num(1), d[2]))
                    ELSE RSub(d[2], Num(1))), d[4])
LnPlusUpper(d) ==
    RAdd(RMul(d[3], IF d[3][1] > 0 THEN RSub(d[2], Num(1))
                    ELSE RSub(Num(1), RDiv(Num(1), d[2]))), d[4])

\* the sign of c * ln(x) + b where the bounds decide it, 0 where they do not
LnPlusSign(d) ==
    IF RLt(Num(0), LnPlusLower(d)) THEN 1
    ELSE IF RLt(LnPlusUpper(d), Num(0)) THEN -1
    ELSE 0

\* t / d for a rational t and a float d
OverFloat(t, d) ==
    IF ~IsLnPlus(d) THEN RDiv(t, d)
    ELSE IF IsNaN(t) THEN NaN
    ELSE IF ~IsFinite(t) THEN Rat(Sign(t[1]) * LnPlusSign(d), 0)
    ELSE IF t[1] = 0 THEN Num(0)
    ELSE <<"/", t, d[2], d[3], d[4]>>

\* leverage.clip(lower=0.0): NaN stays NaN
clip_lower_zero(l) ==
    IF IsOverLnPlus(l)
    THEN (IF Sign(l[2][1]) * LnPlusSign(<<"ln", l[3], l[4], l[5]>>) < 0
          THEN Num(0) ELSE l)
    ELSE IF RLt(l, Num(0)) THEN Num(0) ELSE l

\* r * l for a rational r and a float l
FloatMul(r, l) ==
    IF ~IsOverLnPlus(l) THEN RMul(r, l)
    ELSE IF IsNaN(r) THEN NaN
    ELSE IF ~IsFinite(r) THEN Rat(Sign(r[1]) * Sign(l[2][1])
                                    * LnPlusSign(<<"ln", l[3], l[4], l[5]>>), 0)
    ELSE IF r[1] = 0 THEN Num(0)
    ELSE <<"/", RMul(r, l[2]), l[3], l[4], l[5]>>

\* clean_returns_first for a Series with at least one value that is not
\* NaN: the column is kept and its NaN are filled with 0
clean_returns_first(returns) ==
    [i \in DOMAIN returns |-> IF IsNaN(returns[i]) THEN Num(0) ELSE returns[i]]

Max(S) == CHOOSE m \in S : \A n \in S : n <= m
Min(S) == CHOOSE m \in S : \A n \in S : m <= n

\* StrategyAnalyzer.get_returns_length_in_years
StrategyAnalyzer_get_returns_length_in_years(index) ==
    LET labels == {index[i] : i \in DOMAIN index}
        days == (Max(labels) - Min(labels)) \div TicksPerDay
    IN  Rat(days, CALENDAR_DAYS_PER_YEAR)

\* StrategyAnalyzer.get_annualized_return(levered=False) of a frame that is
\* not empty: get_cumulative_return is the last value of cumprod(0.0)
StrategyAnalyzer_get_annualized_return(clean_returns, index) ==
    LET cumulative == RAdd(cumprod(clean_returns, Num(0))[Len(clean_returns)], Num(1))
    IN  FloatDiv(np_log(cumulative), StrategyAnalyzer_get_returns_length_in_years(index))

\* (clean_returns != 0).sum() / len(clean_returns)
get_time_in_market(clean_returns) ==
    Rat(Cardinality({i \in DOMAIN clean_returns : clean_returns[i] # Num(0)}),
        Len(clean_returns))

\* `if target_return and interest_rate:`: None and 0 are false
Supplied(x) == x # None /\ x # Num(0)

\* the leverage get_levered_returns computes when both are supplied
computed_leverage(clean_returns, index, tr, ir) ==
    LET annualized_return == StrategyAnalyzer_get_annualized_return(clean_returns, index)
        time_in_market == get_time_in_market(clean_returns)
        interest_cost == RMul(ir, time_in_market)
        leverage == OverFloat(tr, FloatSub(annualized_return, interest_cost))
    IN  clip_lower_zero(leverage)

\* get_levered_returns: the fields of the object after the call and the
\* value returned.  With both supplied and an empty frame the last value of
\* the curve raises IndexError.
get_levered_returns(obj, index, tr, ir) ==
    IF Supplied(tr) /\ Supplied(ir)
    THEN IF Len(obj.clean_returns) = 0 THEN Raise("IndexError")
         ELSE LET leverage == computed_leverage(obj.clean_returns, index, tr, ir)
              IN  Ok([obj |-> [obj EXCEPT !.leverage = leverage],
                      returns |-> [i \in DOMAIN obj.clean_returns |->
                                      FloatMul(obj.clean_returns[i], leverage)]])
    ELSE Ok([obj |-> obj, returns |-> obj.clean_returns])

\* StrategyAnalyzer.__init__, statement by statement; an attribute not yet
\* assigned is None.  An exception leaves no object.
StrategyAnalyzer_init(returns, index, tr, ir) ==
    LET obj1 == [clean_returns |-> clean_returns_first(returns),
                 levered_returns |-> None, leverage |-> None]
        levered == get_levered_returns(obj1, index, tr, ir)
    IN  IF levered.err # "" THEN levered
        ELSE LET obj2 == [levered.val.obj EXCEPT !.levered_returns = levered.val.returns]
             IN  Ok([obj2 EXCEPT !.leverage = Num(1)])

\* the inputs whose leverage the bounds of the logarithm decide the sign
\* of: all of AnalyzerReturns, TargetReturns and InterestRates
SignDecided(returns, index, tr, ir) ==
    (Supplied(tr) /\ Supplied(ir) /\ Len(returns) >= 1)
    => LET d == FloatSub(StrategyAnalyzer_get_annualized_return(
                             clean_returns_first(returns), index),
                         RMul(ir, get_time_in_market(clean_returns_first(returns))))
       IN  IsLnPlus(d) => LnPlusSign(d) # 0

\* get_summary(levered=False) of a frame that is not empty: the rows IRR,
\* TimeInMarket and Leverage of the table (the other rows do not read the
\* leverage); an empty frame raises IndexError at its first row
get_summary(obj, index) ==
    IF Len(obj.clean_returns) = 0 THEN Raise("IndexError")
    ELSE Ok([IRR |-> StrategyAnalyzer_get_annualized_return(obj.clean_returns, index),
             TimeInMarket |-> get_time_in_market(obj.clean_returns),
             Leverage |-> obj.leverage])

\* ------------------------------------------------------------ inputs
MinimumModePercentages == {Rat(1, 2), Rat(3, 5), Num(1)}

\* the next timestamp of a list of datetimes: any of these steps after the
\* last one (a step back makes the list unsorted, a step of TicksPerDay + 1
\* is a day and a fraction of a day)
DatetimeSteps ==
    {-TicksPerDay, TicksPerDay, TicksPerDay + 1, 2 * TicksPerDay, 7 * TicksPerDay}

NextDatetimes(dts, steps) ==
    IF Len(dts) = 0 THEN {0} ELSE {dts[Len(dts)] + s : s \in steps}

\* durations handed to get_num_periods_per_year: every whole number of days
\* up to the bound, a year of 365 and of 366 days, the two Timedeltas the
\* code writes as '1M' and '1Y', and None
TimeDeltas ==
    {Timedelta(d, "D") : d \in (0..MaxDeltaDays) \cup {365, 366}}
        \cup {Timedelta(1, "W"), Timedelta(1, "M"), Timedelta(1, "Y"), None}

\* fractional returns of a series: a loss of more than everything, a total
\* loss, a loss of half, nothing, and a doubling
Returns == {Rat(-3, 2), Num(-1), Rat(-1, 2), Num(0), Num(1)}
StartPoints == {Num(0), Num(1), Num(2)}

\* a series sampled every day
DailySteps == {TicksPerDay}

\* series for the volatility: sampled every day, every second day or every
\* week, or a mix of them
VolatilitySteps == {TicksPerDay, 2 * TicksPerDay, 7 * TicksPerDay}
VolatilityReturns == {Rat(-1, 2), Rat(1, 2)}
SharpeTimeFrequencies ==
    {None, Timedelta(0, "D"), Timedelta(1, "D"), Timedelta(2, "D"),
     Timedelta(30, "D"), Timedelta(1, "W"), Timedelta(1, "M"), Timedelta(1, "Y")}

\* series for the Sharpe and Sortino ratios: sampled every day or every
\* week or a mix of them, with a loss of half, nothing and a gain of half
SharpeSteps == {TicksPerDay, 7 * TicksPerDay}
SharpeReturns == {Rat(-1, 2), Num(0), Rat(1, 2)}

\* returns handed to the StrategyAnalyzer: a total loss, a loss of half,
\* nothing and a doubling; its arguments: a target return of 10% and an
\* interest rate of 5%, each also None and 0
AnalyzerReturns == {Num(-1), Rat(-1, 2), Num(0), Num(1)}
TargetReturns == {None, Num(0), Rat(1, 10)}
InterestRates == {None, Num(0), Rat(1, 20)}


\* ------------------------------------------------------------ state
\* op is the function last called, result its outcome; the other variables
\* are the arguments of that call, at their defaults where the function
\* takes no such argument.  self is the StrategyAnalyzer constructed from
\* the current rows, None while there is none, and target_return and
\* interest_rate are the arguments it was constructed with.
Init ==
    /\ op = "init"
    /\ datetimes = <<>>
    /\ returns_series = <<>>
    /\ minimum_mode_percentage = DEFAULT_MINIMUM_MODE_PERCENTAGE
    /\ time_delta = None
    /\ calendar_convention = TRADING_DAYS
    /\ start_point = Num(1)
    /\ sharpe_time_frequency = None
    /\ result = Ok(<<>>)
    /\ self = None
    /\ target_return = None
    /\ interest_rate = None

\* a call of function f with these arguments and this set of outcomes
Call(f, mmp, td, convention, sp, stf, outcomes) ==
    /\ op' = f
    /\ minimum_mode_percentage' = mmp
    /\ time_delta' = td
    /\ calendar_convention' = convention
    /\ start_point' = sp
    /\ sharpe_time_frequency' = stf
    /\ result' \in outcomes
    /\ UNCHANGED <<datetimes, returns_series, self, target_return, interest_rate>>

\* the caller extends the list of datetimes it will pass to infer_frequency
AppendDatetime(t) ==
    /\ Len(datetimes) < MaxDatetimes
    /\ datetimes' = Append(datetimes, t)
    /\ UNCHANGED returns_series
    /\ op' = "init"
    /\ minimum_mode_percentage' = DEFAULT_MINIMUM_MODE_PERCENTAGE
    /\ time_delta' = None
    /\ calendar_convention' = TRADING_DAYS
    /\ start_point' = Num(1)
    /\ sharpe_time_frequency' = None
    /\ result' = Ok(<<>>)
    /\ self' = None
    /\ target_return' = None
    /\ interest_rate' = None

\* the caller extends the return series by one row (timestamp, return)
AppendRow(t, r) ==
    /\ Len(returns_series) < MaxRows
    /\ datetimes' = Append(datetimes, t)
    /\ returns_series' = Append(returns_series, r)
    /\ op' = "init"
    /\ minimum_mode_percentage' = DEFAULT_MINIMUM_MODE_PERCENTAGE
    /\ time_delta' = None
    /\ calendar_convention' = TRADING_DAYS
    /\ start_point' = Num(1)
    /\ sharpe_time_frequency' = None
    /\ result' = Ok(<<>>)
    /\ self' = None
    /\ target_return' = None
    /\ interest_rate' = None

\* TimeHelper.infer_frequency(datetimes, minimum_mode_percentage)
InferFrequency(mmp) ==
    Call("infer_frequency", mmp, None, TRADING_DAYS, Num(1), None,
         infer_frequency(datetimes, mmp))

\* TimeHelper.get_num_periods_per_year(time_delta, calendar_convention)
GetNumPeriodsPerYear(td, convention) ==
    Call("get_num_periods_per_year", DEFAULT_MINIMUM_MODE_PERCENTAGE, td,
         convention, Num(1), None, {get_num_periods_per_year(td, convention)})

\* PortfolioMetrics.get_cumulative_returns(returns_series, start_point)
GetCumulativeReturns(sp) ==
    Call("get_cumulative_returns", DEFAULT_MINIMUM_MODE_PERCENTAGE, None,
         TRADING_DAYS, sp, None, {Ok(get_cumulative_returns(returns_series, sp))})

\* PortfolioMetrics.get_underwater(returns_series)
GetUnderwater ==
    Call("get_underwater", DEFAULT_MINIMUM_MODE_PERCENTAGE, None, TRADING_DAYS,
         Num(1), None, {Ok(get_underwater(returns_series))})

\* PortfolioMetrics.get_max_drawdown(returns_series)
GetMaxDrawdown ==
    Call("get_max_drawdown", DEFAULT_MINIMUM_MODE_PERCENTAGE, None, TRADING_DAYS,
         Num(1), None, {Ok(get_max_drawdown(returns_series))})

\* PortfolioMetrics.get_max_drawdown_date(returns_series)
GetMaxDrawdownDate ==
    Call("get_max_drawdown_date", DEFAULT_MINIMUM_MODE_PERCENTAGE, None,
         TRADING_DAYS, Num(1), None,
         {get_max_drawdown_date(returns_series, datetimes)})

\* PortfolioMetrics.get_annualized_volatility(returns_series,
\*     sharpe_time_frequency, calendar_convention)
GetAnnualizedVolatility(stf, convention) ==
    Call("get_annualized_volatility", DEFAULT_MINIMUM_MODE_PERCENTAGE, None,
         convention, Num(1), stf,
         get_annualized_volatility(returns_series, datetimes, stf, convention))

\* PortfolioMetrics.get_annualized_return(returns_series)
GetAnnualizedReturn ==
    Call("get_annualized_return", DEFAULT_MINIMUM_MODE_PERCENTAGE, None,
         TRADING_DAYS, Num(1), None, {get_annualized_return(returns_series, datetimes)})

\* PortfolioMetrics.get_calmar_ratio(returns_series)
GetCalmarRatio ==
    Call("get_calmar_ratio", DEFAULT_MINIMUM_MODE_PERCENTAGE, None, TRADING_DAYS,
         Num(1), None, {get_calmar_ratio(returns_series, datetimes)})

\* PortfolioMetrics.get_sharpe_ratio(returns_series, time_frequency)
GetSharpeRatio(time_frequency) ==
    Call("get_sharpe_ratio", DEFAULT_MINIMUM_MODE_PERCENTAGE, None, TRADING_DAYS,
         Num(1), time_frequency, {get_sharpe_ratio(returns_series, time_frequency)})

\* PortfolioMetrics.get_sortino_ratio(returns_series, time_frequency)
GetSortinoRatio(time_frequency) ==
    Call("get_sortino_ratio", DEFAULT_MINIMUM_MODE_PERCENTAGE, None, TRADING_DAYS,
         Num(1), time_frequency, {get_sortino_ratio(returns_series, time_frequency)})

\* StrategyAnalyzer(returns, target_return, interest_rate) on the current
\* rows
Construct(tr, ir) ==
    /\ SignDecided(returns_series, datetimes, tr, ir)
    /\ LET constructed == StrategyAnalyzer_init(returns_series, datetimes, tr, ir)
       IN  /\ self' = IF constructed.err = "" THEN constructed.val ELSE None
           /\ result' = IF constructed.err = "" THEN Ok(<<>>) ELSE constructed
    /\ op' = "__init__"
    /\ target_return' = tr
    /\ interest_rate' = ir
    /\ UNCHANGED <<datetimes, returns_series, minimum_mode_percentage, time_delta,
                   calendar_convention, start_point, sharpe_time_frequency>>

\* self.get_summary()
GetSummary ==
    /\ self # None
    /\ Call("get_summary", DEFAULT_MINIMUM_MODE_PERCENTAGE, None, TRADING_DAYS,
            Num(1), None, {get_summary(self, datetimes)})

NextInfer ==
    \/ \E t \in NextDatetimes(datetimes, DatetimeSteps) : AppendDatetime(t)
    \/ \E mmp \in MinimumModePercentages : InferFrequency(mmp)

SpecInfer == Init /\ [][NextInfer]_vars

NextPeriods ==
    \E td \in TimeDeltas, convention \in CalendarConvention :
        GetNumPeriodsPerYear(td, convention)

SpecPeriods == Init /\ [][NextPeriods]_vars

NextMetrics ==
    \/ \E t \in NextDatetimes(datetimes, DailySteps), r \in Returns : AppendRow(t, r)
    \/ \E sp \in StartPoints : GetCumulativeReturns(sp)
    \/ GetUnderwater
    \/ GetMaxDrawdown
    \/ GetMaxDrawdownDate

SpecMetrics == Init /\ [][NextMetrics]_vars

NextVolatility ==
    \/ \E t \in NextDatetimes(datetimes, VolatilitySteps), r \in VolatilityReturns :
            AppendRow(t, r)
    \/ \E stf \in SharpeTimeFrequencies, convention \in CalendarConvention :
            GetAnnualizedVolatility(stf, convention)

SpecVolatility == Init /\ [][NextVolatility]_vars

NextCalmar ==
    \/ \E t \in NextDatetimes(datetimes, DailySteps), r \in Returns : AppendRow(t, r)
    \/ GetAnnualizedReturn
    \/ GetCalmarRatio

SpecCalmar == Init /\ [][NextCalmar]_vars

NextSharpe ==
    \/ \E t \in NextDatetimes(datetimes, SharpeSteps), r \in SharpeReturns :
            AppendRow(t, r)
    \/ \E time_frequency \in SharpeTimeFrequencies : GetSharpeRatio(time_frequency)
    \/ \E time_frequency \in SharpeTimeFrequencies : GetSortinoRatio(time_frequency)

SpecSharpe == Init /\ [][NextSharpe]_vars

NextAnalyzer ==
    \/ \E t \in NextDatetimes(datetimes, DailySteps), r \in AnalyzerReturns :
            AppendRow(t, r)
    \/ \E tr \in TargetReturns, ir \in InterestRates : Construct(tr, ir)
    \/ GetSummary

SpecAnalyzer == Init /\ [][NextAnalyzer]_vars

\* ================================================================ claims
\* the gaps of the current datetimes, their number, and how often g occurs
Gaps == get_time_diffs_seconds(datetimes)
NumGaps == Len(datetimes) - 1
GapCount(g) == Cardinality({i \in 1..NumGaps : Gaps[i] = g})
GapValues == {Gaps[i] : i \in 1..NumGaps}
IsModalGap(g) == g \in GapValues /\ \A h \in GapValues : GapCount(h) <= GapCount(g)
\* the modal fraction is at least / below the threshold <<num, den>>
ModalFractionAtLeast(mmp) ==
    \E g \in GapValues : IsModalGap(g) /\ GapCount(g) * mmp[2] >= mmp[1] * NumGaps
ModalFractionBelow(mmp) ==
    \E g \in GapValues : IsModalGap(g) /\ GapCount(g) * mmp[2] < mmp[1] * NumGaps
StrictlyIncreasing(s) == \A i \in 1..(Len(s) - 1) : s[i] < s[i + 1]

\* C1: for at least 2 timestamps whose most frequent whole-day gap makes up a
\* fraction of the gaps >= minimum_mode_percentage, infer_frequency returns
\* that gap: a gap value no other gap value occurs more often than.
C1_ReturnsModalGap ==
    (op = "infer_frequency" /\ Len(datetimes) >= 2
        /\ ModalFractionAtLeast(minimum_mode_percentage))
    => /\ result.err = ""
       /\ \E g \in GapValues : IsModalGap(g) /\ result.val = <<g * SecondsPerDay>>

\* six increasing timestamps, four 1-day gaps and one 2-day gap, default
\* threshold: the answer is 1 day
C1_Witness ==
    /\ op = "infer_frequency"
    /\ minimum_mode_percentage = DEFAULT_MINIMUM_MODE_PERCENTAGE
    /\ Len(datetimes) = 6 /\ StrictlyIncreasing(datetimes)
    /\ GapCount(1) = 4 /\ GapCount(2) = 1
    /\ result = Ok(<<SecondsPerDay>>)

\* C2: infer_frequency fails with AmbiguousFrequency exactly when there are
\* gaps and the modal gap's fraction of them is strictly below the
\* threshold; a fraction equal to the threshold is accepted.
C2_AmbiguousIffBelow ==
    op = "infer_frequency"
    => /\ (result.err = "AmbiguousFrequency")
            <=> (NumGaps >= 1 /\ ModalFractionBelow(minimum_mode_percentage))
       /\ result.err = "AmbiguousFrequency" => result.val = <<>>

\* three of five gaps are the mode and the threshold is the default 3/5:
\* accepted
C2_Witness ==
    /\ op = "infer_frequency"
    /\ minimum_mode_percentage = DEFAULT_MINIMUM_MODE_PERCENTAGE
    /\ NumGaps = 5
    /\ \E g \in GapValues : IsModalGap(g) /\ GapCount(g) = 3
    /\ result.err = ""

\* what the spec calls 1 month and 1 year, as durations: a month of 28 to 31
\* days; a year of 365 or 366 days or the mean year pandas writes '1Y'
IsOneDay(td) == td = <<SecondsPerDay>>
IsOneWeek(td) == td = <<7 * SecondsPerDay>>
IsOneMonth(td) == td \in {<<d * SecondsPerDay>> : d \in 28..31}
IsOneYear(td) == td \in {<<365 * SecondsPerDay>>, <<366 * SecondsPerDay>>, <<SecondsPerYear>>}
IsSupportedDuration(td) ==
    IsOneDay(td) \/ IsOneWeek(td) \/ IsOneMonth(td) \/ IsOneYear(td)

\* C3: periods_per_year gives 252 (trading) or 365 (calendar) for 1 day, and
\* under either convention 52 for 1 week, 12 for 1 month; 1 for the year the
\* code names '1Y'.
C3_PeriodsPerYearTable ==
    op = "get_num_periods_per_year"
    => /\ IsOneDay(time_delta)
            => result = Ok(Num(IF calendar_convention = TRADING_DAYS THEN 252 ELSE 365))
       /\ IsOneWeek(time_delta) => result = Ok(Num(52))
       /\ IsOneMonth(time_delta) => result = Ok(Num(12))
       /\ time_delta = <<SecondsPerYear>> => result = Ok(Num(1))

\* C4: for every duration that is not 1 day, 1 week, 1 month or 1 year, and
\* for None, periods_per_year fails with UnsupportedFrequency and returns no
\* number.
C4_UnsupportedOutsideSet ==
    (op = "get_num_periods_per_year" /\ ~IsSupportedDuration(time_delta))
    => result = Raise("UnsupportedFrequency")

Underwater == get_underwater(returns_series)
Compounded(i) == Product(Series_add(returns_series, Num(1)), i)
RunningPeakPositive(i) == \E j \in 1..i : RLt(Num(0), Compounded(j))
NeverBelowPeak ==
    \A i \in DOMAIN returns_series : \A j \in 1..i : RLe(Compounded(j), Compounded(i))

\* C6: the curves of two start points a and b differ by a - b at every
\* index; those of 1 and 0 by exactly 1.
C6_ShiftInvariance ==
    op = "get_cumulative_returns"
    => \A b \in StartPoints : \A i \in DOMAIN returns_series :
         RSub(result.val[i], get_cumulative_returns(returns_series, b)[i])
            = RSub(start_point, b)

\* a series of three or more returns, one of them not zero, start point 1:
\* one above the curve of start point 0 at every index
C6_Witness ==
    /\ op = "get_cumulative_returns" /\ start_point = Num(1)
    /\ Len(returns_series) >= 3
    /\ \E i \in DOMAIN returns_series : returns_series[i] # Num(0)
    /\ \A i \in DOMAIN returns_series :
         RSub(result.val[i], get_cumulative_returns(returns_series, Num(0))[i]) = Num(1)

\* C7: for a return series (two points or more) the first value of
\* cumulative_returns(series, start_point), and of StrategyAnalyzer.cumprod,
\* equals start_point.
C7_FirstValueIsStartPoint ==
    (op = "get_cumulative_returns" /\ Len(returns_series) >= 2)
    => /\ result.val[1] = start_point
       /\ cumprod(returns_series, start_point)[1] = start_point

\* C8 as claimed: for every series of finite returns the underwater curve
\* is <= 0 at every index, and so is its minimum, max_drawdown.  (Read in
\* the claim's favour: a value that is NaN is not counted as above 0.)
C8_UnderwaterNeverPositive ==
    /\ op = "get_underwater"
        => \A i \in DOMAIN returns_series : ~RLt(Num(0), result.val[i])
    /\ op = "get_max_drawdown" => ~RLt(Num(0), result.val)

\* C8 amended: underwater[i] <= 0 at every index where the running peak of
\* the compounded curve is positive, which is every index when the first
\* return exceeds -1; max_drawdown <= 0 whenever the first return is not -1,
\* and then it is 0 when the curve never falls below its running peak.
C8_UnderwaterNonPositive ==
    /\ op = "get_underwater"
        => /\ \A i \in DOMAIN returns_series :
                RunningPeakPositive(i) => RLe(result.val[i], Num(0))
           /\ (Len(returns_series) >= 1 /\ RLt(Num(-1), returns_series[1]))
                => \A i \in DOMAIN returns_series : RunningPeakPositive(i)
    /\ (op = "get_max_drawdown" /\ Len(returns_series) >= 1
            /\ returns_series[1] # Num(-1))
        => /\ RLe(result.val, Num(0))
           /\ NeverBelowPeak => result.val = Num(0)

\* a gain after a loss, all returns above -1: the curve is below its peak
\* somewhere and nowhere above it
C8_Witness ==
    /\ op = "get_underwater" /\ Len(returns_series) >= 3
    /\ \A i \in DOMAIN returns_series : RLt(Num(-1), returns_series[i])
    /\ \E i \in DOMAIN returns_series : RLt(Num(0), returns_series[i])
    /\ \E i \in DOMAIN returns_series : RLt(result.val[i], Num(0))
    /\ \A i \in DOMAIN returns_series : RLe(result.val[i], Num(0))

\* position i holds the minimum of the underwater curve, and is the first
\* that does
IsFirstMinimum(i) ==
    /\ ~IsNaN(Underwater[i])
    /\ Underwater[i] = get_max_drawdown(returns_series)
    /\ \A j \in DOMAIN returns_series :
         ~IsNaN(Underwater[j]) => RLe(Underwater[i], Underwater[j])
    /\ \A j \in 1..(i - 1) : Underwater[j] # Underwater[i]

\* C9 as claimed: for every return series (two points or more)
\* max_drawdown_date returns the timestamp of the first position where
\* underwater equals max_drawdown.
C9_DateOfMinimum ==
    (op = "get_max_drawdown_date" /\ Len(returns_series) >= 2)
    => /\ result.err = ""
       /\ \E i \in DOMAIN returns_series :
            result.val = <<datetimes[i]>> /\ IsFirstMinimum(i)

\* C9 amended: for every series whose underwater curve has a value that is
\* not NaN, max_drawdown_date returns the timestamp of the first position
\* where underwater equals max_drawdown, the least of the values that are
\* not NaN.
C9_DateOfFirstMinimum ==
    (op = "get_max_drawdown_date"
        /\ \E i \in DOMAIN returns_series : ~IsNaN(Underwater[i]))
    => /\ result.err = ""
       /\ \E i \in DOMAIN returns_series :
            result.val = <<datetimes[i]>> /\ IsFirstMinimum(i)

\* the curve dips to its lowest, recovers to the peak and dips to the same
\* low again: the date is that of the first dip
C9_Witness ==
    /\ op = "get_max_drawdown_date"
    /\ \E i, j, k \in DOMAIN returns_series :
         /\ i < k /\ k < j
         /\ RLt(Underwater[i], Num(0))
         /\ Underwater[i] = get_max_drawdown(returns_series)
         /\ Underwater[j] = Underwater[i]
         /\ Underwater[k] = Num(0)
         /\ result = Ok(<<datetimes[i]>>)

\* C10: whenever annualized_volatility gets as far as the window, for a
\* Sharpe frequency that is absent or one of 1 day, 1 week, 1 month, 1 year,
\* the window is at least 1, and exactly 1 when no Sharpe frequency is given.
C10_WindowAtLeastOne ==
    (op = "get_annualized_volatility" /\ result.err = ""
        /\ (sharpe_time_frequency = None \/ IsSupportedDuration(sharpe_time_frequency)))
    => /\ result.val.rolling_window >= 1
       /\ sharpe_time_frequency = None => result.val.rolling_window = 1

\* the values the Calmar ratio is made of, for the current series
MaxDrawdown == get_max_drawdown(returns_series)
FinalValue == get_cumulative_returns(returns_series, Num(1))[Len(returns_series)]
Years == RDiv(Num((datetimes[Len(datetimes)] - datetimes[1]) \div TicksPerDay),
              Rat(1461, 4))
IsNonFinite(v) == ~IsLn(v) /\ ~IsFinite(v)

\* C11: calmar_ratio of a series whose max_drawdown is exactly 0 completes
\* with a value that is an infinity or NaN; for a series (not empty) whose
\* max_drawdown is not 0 it completes with annualized_return /
\* abs(max_drawdown): where the final value of the curve is positive and not
\* 1 and the years and the drawdown are finite and not 0, that is c * ln(final
\* value) with c * years * abs(max_drawdown) = 1.
C11_CalmarZeroDrawdown ==
    (op = "get_calmar_ratio" /\ Len(returns_series) >= 1)
    => /\ result.err = ""
       /\ MaxDrawdown = Num(0) => IsNonFinite(result.val)
       /\ MaxDrawdown # Num(0)
            => /\ \E a \in {get_annualized_return(returns_series, datetimes)} :
                    a.err = "" /\ result.val = FloatDiv(a.val, RAbs(MaxDrawdown))
               /\ (RLt(Num(0), FinalValue) /\ FinalValue # Num(1)
                        /\ RLt(Num(0), Years) /\ IsFinite(MaxDrawdown))
                    => /\ IsLn(result.val)
                       /\ result.val[2] = FinalValue
                       /\ RMul(result.val[3], RMul(Years, RAbs(MaxDrawdown))) = Num(1)

\* a doubling every day for three days or more: no drawdown, and the ratio
\* is plus infinity
C11_Witness ==
    /\ op = "get_calmar_ratio" /\ Len(returns_series) >= 3
    /\ \A i \in DOMAIN returns_series : returns_series[i] = Num(1)
    /\ MaxDrawdown = Num(0)
    /\ result = Ok(Rat(1, 0))

\* C12: with window 1 (the default, no Sharpe frequency) the percentage
\* changes annualized_volatility takes the deviation of are the series' own
\* returns from the second on: one per index after the first, each equal to
\* the return at that index.
C12_WindowOneIsOwnReturns ==
    (op = "get_annualized_volatility" /\ result.err = ""
        /\ sharpe_time_frequency = None /\ result.val.rolling_window = 1)
    => /\ Len(result.val.period_returns) = Len(returns_series) - 1
       /\ \A i \in 1..(Len(returns_series) - 1) :
            result.val.period_returns[i] = returns_series[i + 1]

\* the current datetimes in ascending order
SortedDatetimes == SortSeq(datetimes, LAMBDA a, b : a < b)

\* C13: every gap infer_frequency counts is non-negative, and the outcomes
\* it can give for the datetimes as passed are those it can give for the
\* same datetimes in ascending order.
C13_OrderIndependent ==
    op = "infer_frequency"
    => /\ \A i \in 1..NumGaps : Gaps[i] >= 0
       /\ result \in infer_frequency(SortedDatetimes, minimum_mode_percentage)

\* periods per year of a supported duration under the trading-day convention
TradingPeriodsPerYear(td) ==
    IF IsOneDay(td) THEN Num(252)
    ELSE IF IsOneWeek(td) THEN Num(52)
    ELSE IF IsOneMonth(td) THEN Num(12)
    ELSE Num(1)

\* C14, the omitted duration: sharpe_ratio and sortino_ratio called without
\* a duration fail with UnsupportedFrequency for every series.
C14_OmittedDurationFails ==
    (op \in {"get_sharpe_ratio", "get_sortino_ratio"} /\ sharpe_time_frequency = None)
    => result = Raise("UnsupportedFrequency")

\* C14: sharpe_ratio and sortino_ratio of a series (two points or more)
\* called without a duration fail with UnsupportedFrequency; called with 1
\* day, 1 week, 1 month or 1 year they annualize with the periods per year
\* of the trading-day convention (252 for 1 day), whatever the spacing of
\* the series.
C14_NeverInfersFrequency ==
    (op \in {"get_sharpe_ratio", "get_sortino_ratio"} /\ Len(returns_series) >= 2)
    => /\ sharpe_time_frequency = None => result = Raise("UnsupportedFrequency")
       /\ IsSupportedDuration(sharpe_time_frequency)
            => /\ result.err = ""
               /\ result.val.periods_per_year
                    = TradingPeriodsPerYear(sharpe_time_frequency)

\* the leverage get_levered_returns computes for the current rows and the
\* analyzer's arguments
ComputedLeverage ==
    computed_leverage(clean_returns_first(returns_series), datetimes,
                      target_return, interest_rate)
BothSupplied == Supplied(target_return) /\ Supplied(interest_rate)

\* C15: a StrategyAnalyzer constructed from two or more returns, all above
\* 0, has leverage 1 when target_return and interest_rate are not both
\* supplied; when both are, its leverage is
\* the computed value target_return / (annualized_return - interest_rate *
\* time_in_market) clipped below at 0, the factor levered_returns is
\* clean_returns scaled by; and get_summary reports that leverage.
C15_LeverageOverridden ==
    (self # None /\ Len(returns_series) >= 2
        /\ \A i \in DOMAIN returns_series : RLt(Num(0), returns_series[i]))
    => /\ ~BothSupplied => self.leverage = Num(1)
       /\ BothSupplied
            => /\ self.leverage = ComputedLeverage
               /\ \A i \in DOMAIN self.clean_returns :
                    self.levered_returns[i]
                        = FloatMul(self.clean_returns[i], self.leverage)
       /\ (op = "get_summary" /\ result.err = "")
            => result.val.Leverage = self.leverage

====
